---------------------------- MODULE Spec2Model ----------------------------
(***************************************************************************)
(* Model of the crawler-system backend (backend/main.py and                *)
(* backend/connection_manager.py): the DynamoDB character table, the       *)
(* ConnectionManager registry of websockets per character, the mutation    *)
(* endpoints and the websocket endpoint.                                   *)
(*                                                                         *)
(* The endpoints are asyncio coroutines.  The boto3 calls are blocking and *)
(* never yield, so the only suspension point of an endpoint is the         *)
(* `await connection.send_text(...)` inside ConnectionManager.broadcast;   *)
(* every stretch of code between two such awaits is one atomic action.     *)
(***************************************************************************)
EXTENDS Integers, Sequences, FiniteSets, TLC

VARIABLES
    table,               \* DynamoDB table: char_id -> stored item (a partial map)
    active_connections,  \* ConnectionManager.active_connections: char_id -> list of websockets
    chan,                \* per websocket: state of the connection and the char_id of its endpoint
    reqs,                \* per HTTP request / broadcast call: its locals and position
    received,            \* per websocket: the messages delivered to the client, in order
    impl,                \* which ConnectionManager class is in use: "main" or "connection_manager"
    last_call            \* the outcome of the last direct call of a manager method

vars == <<table, active_connections, chan, reqs, received, impl, last_call>>

----------------------------------------------------------------------------
(* Bounds of the model *)

MaxReqs == 3
MaxChannels == 3
MaxLoad == 4

Reqs == 1..MaxReqs
Channels == 1..MaxChannels

(* Inputs *)
CharIds == {"carl_001", "donut_001"}
Amounts == {-3, 10}
Credentials == {"missing", "invalid", "valid"}
ItemModels == {[name |-> "Potion", type |-> "Consumable", count |-> 2, stats |-> "None"]}
ItemIndexes == {-1, 0, 1}
D20 == 1..20
SkillNames == {"brawling", "Brawling", "STEALTH"}

\* What a read of the table can end with: the item (or its absence), an
\* error response of DynamoDB (botocore ClientError), or no response at all
\* (botocore EndpointConnectionError, which is not a ClientError)
ReadOutcomes == {"ok", "ClientError", "EndpointConnectionError"}

----------------------------------------------------------------------------
(* Python dict helpers *)

\* dict.get(k, default)
Get(d, k, default) == IF k \in DOMAIN d THEN d[k] ELSE default

\* d[k] = v on a dict (adds the key when it is missing)
Put(d, k, v) == (k :> v) @@ d

\* del d[k]
Del(d, k) == [x \in (DOMAIN d) \ {k} |-> d[x]]

\* list.index(x) for an x that is in the list: the first position holding x
IndexOf(list, x) == CHOOSE i \in 1..Len(list) : list[i] = x /\ \A j \in 1..(i-1) : list[j] # x

\* x in list
In(list, x) == \E i \in 1..Len(list) : list[i] = x

\* list.remove(x) for an x that is in the list: drops the first occurrence
Remove(list, x) ==
    LET i == IndexOf(list, x)
    IN  SubSeq(list, 1, i - 1) \o SubSeq(list, i + 1, Len(list))

Abs(n) == IF n < 0 THEN -n ELSE n

----------------------------------------------------------------------------
(* The stored data *)

\* reseed_carl.py: the item the table is seeded with (the attributes the
\* endpoints read or write; it has no gold attribute)
clean_carl ==
    [level |-> 5,
     hp |-> [current |-> 40, max |-> 40],
     skills |-> [brawling |-> 5],
     inventory |-> <<>>]

\* get_character_from_db: the projection of a stored item, with the defaults
Project(item) ==
    [level |-> Get(item, "level", 1),
     gold |-> Get(item, "gold", 0),
     hp |-> [current |-> Get(Get(item, "hp", <<>>), "current", 10),
             max |-> Get(Get(item, "hp", <<>>), "max", 10),
             temp |-> 0],
     skills |-> Get(item, "skills", <<>>),
     inventory |-> Get(item, "inventory", <<>>)]

\* The table as reseed_carl.py leaves it: carl_001 is stored, donut_001 is not
InitTable == [c \in {"carl_001"} |-> clean_carl]

\* get_character_from_db(char_id): None when the table has no such item
NoneValue == [none |-> TRUE]

\* A read served from a copy of the table taken at start-up
get_character_from_db_Cached(tbl, char_id) ==
    IF char_id \in DOMAIN InitTable THEN Project(InitTable[char_id]) ELSE NoneValue

get_character_from_db(tbl, char_id) ==
    IF char_id \in DOMAIN tbl THEN Project(tbl[char_id]) ELSE NoneValue

IsNone(x) == "none" \in DOMAIN x

\* get_character_from_db(char_id) when table.get_item ends with `store`:
\* `except ClientError` returns None, any other exception leaves the function
ReadCharacter(tbl, char_id, store) ==
    CASE store = "ok" -> [raised |-> "none", value |-> get_character_from_db(tbl, char_id)]
      [] store = "ClientError" -> [raised |-> "none", value |-> NoneValue]
      [] OTHER -> [raised |-> store, value |-> NoneValue]

----------------------------------------------------------------------------
(* DynamoDB UpdateItem, as the endpoints call it.  UpdateItem on a key with *)
(* no item creates the item (with only its key attributes) before the       *)
(* update expression is applied; a SET whose right-hand side reads an       *)
(* attribute or document path the item lacks fails with a                   *)
(* ValidationException (a botocore ClientError) and writes nothing.         *)

\* A last-write-wins update, "SET gold = :val"
UpdateGoldExpr_Overwrite(item, amount) == amount

\* "SET gold = if_not_exists(gold, :zero) + :val": the new value of gold
UpdateGoldExpr(item, amount) == Get(item, "gold", 0) + amount

\* adjust_gold's table.update_item call: never fails, creates a missing item
update_gold(tbl, char_id, amount) ==
    LET item == Get(tbl, char_id, <<>>)
    IN  Put(tbl, char_id, Put(item, "gold", UpdateGoldExpr(item, amount)))

\* "SET #h.#c = #h.#c + :val" is valid only when the item has hp.current
HpPathExists(tbl, char_id) ==
    /\ char_id \in DOMAIN tbl
    /\ "hp" \in DOMAIN tbl[char_id]
    /\ "current" \in DOMAIN tbl[char_id]["hp"]

\* An update that keeps hp.current within 0..hp.max
update_hp_Clamped(tbl, char_id, amount) ==
    LET item == tbl[char_id]
        sum == item["hp"]["current"] + amount
        clamped == IF sum < 0 THEN 0
                   ELSE IF sum > item["hp"]["max"] THEN item["hp"]["max"]
                   ELSE sum
    IN  Put(tbl, char_id, Put(item, "hp", Put(item["hp"], "current", clamped)))

\* adjust_hp's table.update_item call, when the path exists
update_hp(tbl, char_id, amount) ==
    LET item == tbl[char_id]
    IN  Put(tbl, char_id, Put(item, "hp", Put(item["hp"], "current", item["hp"]["current"] + amount)))

\* "SET #l = #l + :val" is valid only when the item has a level
LevelExists(tbl, char_id) ==
    /\ char_id \in DOMAIN tbl
    /\ "level" \in DOMAIN tbl[char_id]

\* level_up's table.update_item call, when the attribute exists
level_up_character(tbl, char_id) ==
    LET item == tbl[char_id]
    IN  Put(tbl, char_id, Put(item, "level", item["level"] + 1))

\* "SET inventory = :inv": overwrites the whole list (creates a missing item)
update_inventory(tbl, char_id, inventory) ==
    Put(tbl, char_id, Put(Get(tbl, char_id, <<>>), "inventory", inventory))

----------------------------------------------------------------------------
(* Inventory lists *)

\* A scan that compares the names only
Matches_NameOnly(inventory, item) ==
    {i \in 1..Len(inventory) : inventory[i]["name"] = item.name}

\* add_item's scan: the positions of the stacks with the item's name and type
Matches(inventory, item) ==
    {i \in 1..Len(inventory) :
        inventory[i]["name"] = item.name /\ Get(inventory[i], "type", "None") = item.type}

\* add_item: stack onto the first match, else append item.dict()
AddToInventory(inventory, item) ==
    IF Matches(inventory, item) # {}
    THEN LET i == CHOOSE m \in Matches(inventory, item) : \A n \in Matches(inventory, item) : m <= n
         IN  [inventory EXCEPT ![i] = Put(@, "count", Get(@, "count", 1) + item.count)]
    ELSE Append(inventory, item)

\* use_item's index check (item_index is a Python, 0-based index)
ValidIndex(inventory, item_index) == item_index >= 0 /\ item_index < Len(inventory)

\* A use_item that removes the entry whatever its count
UseFromInventory_AlwaysPop(inventory, item_index) ==
    LET i == item_index + 1
    IN  SubSeq(inventory, 1, i - 1) \o SubSeq(inventory, i + 1, Len(inventory))

\* use_item: decrement a count above 1, else pop the entry
UseFromInventory(inventory, item_index) ==
    LET i == item_index + 1
    IN  IF Get(inventory[i], "count", 1) > 1
        THEN [inventory EXCEPT ![i] = Put(@, "count", Get(@, "count", 1) - 1)]
        ELSE SubSeq(inventory, 1, i - 1) \o SubSeq(inventory, i + 1, Len(inventory))

----------------------------------------------------------------------------
(* Skill rolls *)

\* str.lower() and str.title() on the skill names of SkillNames
Lower(s) ==
    CASE s = "Brawling" -> "brawling"
      [] s = "STEALTH" -> "stealth"
      [] OTHER -> s
Title(s) ==
    CASE s = "brawling" -> "Brawling"
      [] s = "STEALTH" -> "Stealth"
      [] OTHER -> s

\* A lookup that forgets to lower-case the skill name
Modifier_CaseSensitive(skills, skill_name) == Get(skills, skill_name, 0)

\* roll_skill: char_data['skills'].get(request.skill_name.lower(), 0)
Modifier(skills, skill_name) == Get(skills, Lower(skill_name), 0)

\* roll_skill: the suffix of the log message
CritMsg(d20) ==
    IF d20 = 20 THEN " [CRITICAL SUCCESS!]"
    ELSE IF d20 = 1 THEN " [CRITICAL FAILURE!]"
    ELSE ""

----------------------------------------------------------------------------
(* ConnectionManager: main.py's class and connection_manager.py's class.   *)
(* Each operator returns the new registry and the exception the call       *)
(* raises ("none" when it returns normally).                               *)

\* main.py ConnectionManager.connect (after websocket.accept())
connect(conns, char_id, websocket) ==
    Put(conns, char_id, Append(Get(conns, char_id, <<>>), websocket))

\* connection_manager.py ConnectionManager.connect
cm_connect(conns, websocket, character_id) ==
    Put(conns, character_id, Append(Get(conns, character_id, <<>>), websocket))

\* A disconnect that forgets list.remove
disconnect_NoRemove(conns, char_id, websocket) ==
    [conns |-> conns, raised |-> "none"]

\* A disconnect that removes the websocket but never deletes an empty list
disconnect_NoPrune(conns, char_id, websocket) ==
    IF char_id \in DOMAIN conns /\ In(conns[char_id], websocket)
    THEN [conns |-> Put(conns, char_id, Remove(conns[char_id], websocket)), raised |-> "none"]
    ELSE [conns |-> conns, raised |-> "none"]

\* main.py ConnectionManager.disconnect: list.remove raises ValueError when
\* the websocket is not in the list
disconnect(conns, char_id, websocket) ==
    IF char_id \in DOMAIN conns
    THEN IF In(conns[char_id], websocket)
         THEN LET list == Remove(conns[char_id], websocket)
              IN  [conns |-> IF list = <<>> THEN Del(conns, char_id) ELSE Put(conns, char_id, list),
                   raised |-> "none"]
         ELSE [conns |-> conns, raised |-> "ValueError"]
    ELSE [conns |-> conns, raised |-> "none"]

\* connection_manager.py ConnectionManager.disconnect: removes only when present
cm_disconnect(conns, websocket, character_id) ==
    IF character_id \in DOMAIN conns
    THEN LET list == IF In(conns[character_id], websocket)
                     THEN Remove(conns[character_id], websocket)
                     ELSE conns[character_id]
         IN  [conns |-> IF list = <<>> THEN Del(conns, character_id) ELSE Put(conns, character_id, list),
              raised |-> "none"]
    ELSE [conns |-> conns, raised |-> "none"]

\* A broadcast that sends to every registered websocket, whatever its character
RECURSIVE Flatten(_, _)
Flatten(conns, keys) ==
    IF keys = {} THEN <<>>
    ELSE LET k == CHOOSE x \in keys : TRUE
         IN  conns[k] \o Flatten(conns, keys \ {k})
Subscribers_AllCharacters(conns, char_id) == Flatten(conns, DOMAIN conns)

\* broadcast's `if char_id in self.active_connections` and the list its for
\* loop iterates: the live list object of char_id, not a copy of it
Subscribers(conns, char_id) == Get(conns, char_id, <<>>)

\* broadcast's handling of an exception raised by a send: main.py has no
\* try/except, connection_manager.py catches Exception and goes on
SendErrorCaught(which) == which = "connection_manager"

----------------------------------------------------------------------------
(* Requests.  A slot of reqs holds the arguments and locals of one call of *)
(* an endpoint (or, in the manager harness, of one direct broadcast call). *)
(* pc: "idle" not yet called; "sent" suspended in `await send_text(...)`;  *)
(* "done" returned or raised.                                              *)
(*                                                                         *)
(* send_text hands the frame to the connection when it is called, raising  *)
(* when the connection has ended, and may then yield to the event loop     *)
(* before it returns: the message is delivered (or the exception raised)   *)
(* in the step that calls send, and the coroutine goes on in a later step. *)
(* A send to a websocket whose client has stopped reading ("stalled") does *)
(* not return while the client stays so.                                   *)
(*                                                                         *)
(* inventory_read is the inventory an inventory request read, as it was    *)
(* before the request changed it.                                          *)
(* emitted, observers, stable, gone_at_start, sent_to_gone and send_failed *)
(* are history fields: the event types broadcast() was called with, the    *)
(* subscriber list when the call started, whether that list stayed as it   *)
(* was while the call ran, the websockets already unsubscribed when the    *)
(* running broadcast() began, whether a send went to one of those, and     *)
(* whether a send of this call raised.                                     *)

IdleReq ==
    [op |-> "none", char_id |-> "none", amount |-> 0, item_index |-> 0,
     item_name |-> "none", cred |-> "none",
     item |-> NoneValue, store |-> "none", inventory_read |-> <<>>,
     skill_name |-> "none", d20 |-> 0, modifier |-> 0,
     pc |-> "idle", status |-> 0, updated_char |-> NoneValue,
     ev |-> 0, idx |-> 0, connection |-> 0, detached |-> FALSE,
     emitted |-> <<>>, observers |-> <<>>, stable |-> TRUE,
     gone_at_start |-> {}, sent_to_gone |-> FALSE, send_failed |-> FALSE]

\* A roll_skill that announces the result before the log line
RollEvents_ResultFirst(rec) ==
    <<[type |-> "roll_result",
       body |-> [skill |-> rec.skill_name, d20 |-> rec.d20, mod |-> rec.modifier,
                 total |-> rec.d20 + rec.modifier, crit |-> rec.d20 = 20 \/ rec.d20 = 1]],
      [type |-> "log",
       body |-> <<"Rolled", Title(rec.skill_name), rec.d20, rec.modifier,
                  rec.d20 + rec.modifier, CritMsg(rec.d20)>>]>>

\* The two messages of roll_skill: the log line, then the roll_result payload
RollEvents(rec) ==
    <<[type |-> "log",
       body |-> <<"Rolled", Title(rec.skill_name), rec.d20, rec.modifier,
                  rec.d20 + rec.modifier, CritMsg(rec.d20)>>],
      [type |-> "roll_result",
       body |-> [skill |-> rec.skill_name, d20 |-> rec.d20, mod |-> rec.modifier,
                 total |-> rec.d20 + rec.modifier, crit |-> rec.d20 = 20 \/ rec.d20 = 1]]>>

\* The messages an endpoint hands to manager.broadcast, in order.  A log
\* message is kept as the tuple of the parts its f-string is built from.
Events(rec) ==
    LET update == [type |-> "update", body |-> rec.updated_char]
    IN  CASE rec.op = "adjust_hp" ->
               <<update,
                 [type |-> "log",
                  body |-> <<IF rec.amount > 0 THEN "Healed" ELSE "Took Damage",
                             Abs(rec.amount), rec.updated_char.hp.current>>]>>
          [] rec.op = "adjust_gold" ->
               <<update,
                 [type |-> "log",
                  body |-> <<"FINANCE", IF rec.amount > 0 THEN "Received" ELSE "Paid",
                             Abs(rec.amount)>>]>>
          [] rec.op = "level_up" ->
               <<update,
                 [type |-> "log", body |-> <<"LEVEL UP", rec.updated_char.level>>]>>
          [] rec.op = "use_item" ->
               <<update, [type |-> "log", body |-> <<"Used", rec.item_name>>]>>
          [] rec.op = "roll_skill" -> RollEvents(rec)
          [] rec.op = "broadcast" ->
               <<[type |-> "log", body |-> <<"message">>]>>
          [] OTHER -> <<>>

\* The endpoint returns (status 200) or ends with an HTTPException or an
\* unhandled exception (status 500).  Its locals are dropped; the record
\* keeps what the caller sent and got, and the history fields about events.
Return(rec, status) ==
    [rec EXCEPT !.pc = "done", !.status = status, !.updated_char = NoneValue,
                !.item_name = "none", !.inventory_read = <<>>,
                !.ev = 0, !.idx = 0, !.connection = 0, !.detached = FALSE,
                !.observers = <<>>, !.stable = TRUE, !.gone_at_start = {}]

Gone == {w \in Channels : chan[w].state = "gone"}

\* The coroutine of request r runs until it suspends in a send or ends.
\* Broadcast: the endpoint calls its k-th manager.broadcast (or returns when
\* it has no k-th).  Iterate: the for loop of the running broadcast takes
\* position i of the list.  Both give the request's record and the messages
\* received by the websockets.
RECURSIVE Broadcast(_, _, _, _, _)
RECURSIVE Iterate(_, _, _, _, _)
Broadcast(r, rec, recv, k, conns) ==
    IF k > Len(Events(rec))
    THEN [rec |-> Return(rec, 200), received |-> recv]
    ELSE Iterate(r, [rec EXCEPT !.emitted = Append(@, Events(rec)[k].type),
                                !.ev = k, !.detached = FALSE, !.gone_at_start = Gone],
                 recv, 1, conns)

Iterate(r, rec, recv, i, conns) ==
    LET list == IF rec.detached THEN <<>> ELSE Subscribers(conns, rec.char_id)
    IN  IF i > Len(list)
        THEN Broadcast(r, rec, recv, rec.ev + 1, conns)
        ELSE LET tried == [rec EXCEPT !.sent_to_gone = @ \/ list[i] \in rec.gone_at_start]
             IN  IF chan[list[i]].state = "open"
                 THEN [rec |-> [tried EXCEPT !.pc = "sent", !.idx = i, !.connection = list[i]],
                       received |-> [recv EXCEPT ![list[i]] =
                           Append(@, [type |-> Events(rec)[rec.ev].type,
                                      body |-> Events(rec)[rec.ev].body,
                                      req |-> r])]]
                 ELSE IF chan[list[i]].state = "stalled"
                 THEN \* the send is awaited and does not complete
                      [rec |-> [tried EXCEPT !.pc = "sent", !.idx = i, !.connection = list[i]],
                       received |-> recv]
                 ELSE IF SendErrorCaught(impl)
                 THEN Iterate(r, [tried EXCEPT !.send_failed = TRUE], recv, i + 1, conns)
                 ELSE [rec |-> Return([tried EXCEPT !.send_failed = TRUE], 500),
                       received |-> recv]

\* The endpoint as called: arguments bound, subscriber list noted
Called(op, char_id, cred) ==
    [IdleReq EXCEPT !.op = op, !.char_id = char_id, !.cred = cred,
                    !.observers = Get(active_connections, char_id, <<>>)]

\* The requests started and the websockets connected so far
Load ==
    Cardinality({q \in Reqs : reqs[q].pc # "idle"})
    + Cardinality({w \in Channels : chan[w].state # "new"})

\* Requests are numbered in the order they arrive
NextReq(r) ==
    /\ reqs[r].pc = "idle"
    /\ \A q \in Reqs : q < r => reqs[q].pc # "idle"
    /\ Load < MaxLoad

\* Request r goes on from `out`, the result of Broadcast or Iterate
Continue(r, out) ==
    /\ reqs' = [reqs EXCEPT ![r] = out.rec]
    /\ received' = out.received

InFlight(rec) == rec.pc = "sent"

\* What a change of char_id's list means for the broadcasts iterating it:
\* once `del self.active_connections[char_id]` has run, their iterator is
\* left on the old, now empty list object
OnRegistryChange(rs, char_id, conns) ==
    [q \in Reqs |->
        IF InFlight(rs[q]) /\ rs[q].char_id = char_id
        THEN [rs[q] EXCEPT !.stable = FALSE,
                           !.detached = @ \/ char_id \notin DOMAIN conns]
        ELSE rs[q]]

----------------------------------------------------------------------------
(* The mutation endpoints of main.py *)

adjust_hp(r, char_id, amount, cred) ==
    /\ NextReq(r)
    /\ LET rec == [Called("adjust_hp", char_id, cred) EXCEPT !.amount = amount]
       IN  IF HpPathExists(table, char_id)
           THEN LET tbl == update_hp(table, char_id, amount)
                    updated_char == get_character_from_db(tbl, char_id)
                IN  /\ table' = tbl
                    /\ Continue(r, Broadcast(r, [rec EXCEPT !.updated_char = updated_char],
                                             received, 1, active_connections))
           ELSE \* ClientError -> HTTPException(500)
                /\ table' = table
                /\ reqs' = [reqs EXCEPT ![r] = Return(rec, 500)]
                /\ received' = received
    /\ UNCHANGED <<active_connections, chan, impl, last_call>>

adjust_gold(r, char_id, amount, cred) ==
    /\ NextReq(r)
    /\ LET rec == [Called("adjust_gold", char_id, cred) EXCEPT !.amount = amount]
           tbl == update_gold(table, char_id, amount)
           updated_char == get_character_from_db(tbl, char_id)
       IN  /\ table' = tbl
           /\ Continue(r, Broadcast(r, [rec EXCEPT !.updated_char = updated_char],
                                    received, 1, active_connections))
    /\ UNCHANGED <<active_connections, chan, impl, last_call>>

level_up(r, char_id, cred) ==
    /\ NextReq(r)
    /\ LET rec == Called("level_up", char_id, cred)
       IN  IF LevelExists(table, char_id)
           THEN LET tbl == level_up_character(table, char_id)
                    updated_char == get_character_from_db(tbl, char_id)
                IN  /\ table' = tbl
                    /\ Continue(r, Broadcast(r, [rec EXCEPT !.updated_char = updated_char],
                                             received, 1, active_connections))
           ELSE \* ClientError -> HTTPException(500)
                /\ table' = table
                /\ reqs' = [reqs EXCEPT ![r] = Return(rec, 500)]
                /\ received' = received
    /\ UNCHANGED <<active_connections, chan, impl, last_call>>

\* add_item ends after table.update_item: the broadcast lines that were meant
\* for it sit, unreachable, at the end of level_up (main.py 205-210)
add_item(r, char_id, item, cred, store) ==
    /\ NextReq(r)
    /\ LET rec == [Called("add_item", char_id, cred) EXCEPT !.item = item, !.store = store]
           read == ReadCharacter(table, char_id, store)
           char_data == read.value
       IN  IF read.raised # "none"
           THEN /\ table' = table
                /\ reqs' = [reqs EXCEPT ![r] = Return(rec, 500)]
           ELSE IF IsNone(char_data)
           THEN /\ table' = table
                /\ reqs' = [reqs EXCEPT ![r] = Return(rec, 404)]
           ELSE /\ table' = update_inventory(table, char_id,
                                             AddToInventory(char_data.inventory, item))
                /\ reqs' = [reqs EXCEPT ![r] = Return(rec, 200)]
    /\ UNCHANGED <<active_connections, chan, received, impl, last_call>>

use_item(r, char_id, item_index, store) ==
    /\ NextReq(r)
    /\ LET rec == [Called("use_item", char_id, "none") EXCEPT !.item_index = item_index,
                                                             !.store = store]
           read == ReadCharacter(table, char_id, store)
           char_data == read.value
       IN  IF read.raised # "none"
           THEN /\ table' = table
                /\ reqs' = [reqs EXCEPT ![r] = Return(rec, 500)]
                /\ received' = received
           ELSE IF IsNone(char_data)
           THEN /\ table' = table
                /\ reqs' = [reqs EXCEPT ![r] = Return(rec, 404)]
                /\ received' = received
           ELSE IF ~ValidIndex(char_data.inventory, item_index)
           THEN /\ table' = table
                /\ reqs' = [reqs EXCEPT ![r] = Return(rec, 400)]
                /\ received' = received
           ELSE LET tbl == update_inventory(table, char_id,
                                            UseFromInventory(char_data.inventory, item_index))
                    updated_char == get_character_from_db(tbl, char_id)
                IN  /\ table' = tbl
                    /\ Continue(r, Broadcast(r, [rec EXCEPT
                                            !.inventory_read = char_data.inventory,
                                            !.item_name = char_data.inventory[item_index + 1]["name"],
                                            !.updated_char = updated_char],
                                        received, 1, active_connections))
    /\ UNCHANGED <<active_connections, chan, impl, last_call>>

----------------------------------------------------------------------------
(* The read-only endpoints of main.py *)

\* GET /character/{char_id}
get_character(r, char_id, store) ==
    /\ NextReq(r)
    /\ LET rec == [Called("get_character", char_id, "none") EXCEPT !.store = store]
           read == ReadCharacter(table, char_id, store)
       IN  reqs' = [reqs EXCEPT ![r] =
                       IF read.raised # "none" THEN Return(rec, 500)
                       ELSE IF IsNone(read.value) THEN Return(rec, 404)
                       ELSE Return(rec, 200)]
    /\ UNCHANGED <<table, active_connections, chan, received, impl, last_call>>

\* POST /character/{char_id}/roll; d20 is what random.randint(1, 20) gives
roll_skill(r, char_id, skill_name, d20, store) ==
    /\ NextReq(r)
    /\ LET rec == [Called("roll_skill", char_id, "none") EXCEPT !.store = store,
                                                              !.skill_name = skill_name]
           read == ReadCharacter(table, char_id, store)
           char_data == read.value
       IN  IF read.raised # "none"
           THEN /\ reqs' = [reqs EXCEPT ![r] = Return(rec, 500)]
                /\ received' = received
           ELSE IF IsNone(char_data)
           THEN /\ reqs' = [reqs EXCEPT ![r] = Return(rec, 404)]
                /\ received' = received
           ELSE Continue(r, Broadcast(r, [rec EXCEPT !.d20 = d20,
                                                    !.modifier = Modifier(char_data.skills, skill_name)],
                                      received, 1, active_connections))
    /\ UNCHANGED <<table, active_connections, chan, impl, last_call>>

----------------------------------------------------------------------------
(* ConnectionManager.broadcast after a suspension *)

\* The awaited send returns and the coroutine runs on: the for loop takes
\* the next position of the list
Resume(r) ==
    /\ reqs[r].pc = "sent"
    /\ chan[reqs[r].connection].state # "stalled"
    /\ Continue(r, Iterate(r, reqs[r], received, reqs[r].idx + 1, active_connections))
    /\ UNCHANGED <<table, active_connections, chan, impl, last_call>>

----------------------------------------------------------------------------
(* websocket_endpoint of main.py, and what the client side does *)

\* Websockets are numbered in the order they connect
NextChannel(w) ==
    /\ chan[w].state = "new"
    /\ \A v \in Channels : v < w => chan[v].state # "new"
    /\ Load < MaxLoad

\* manager.connect(char_id, websocket), then the receive loop
WsConnect(w, char_id) ==
    /\ NextChannel(w)
    /\ active_connections' = connect(active_connections, char_id, w)
    /\ chan' = [chan EXCEPT ![w] = [state |-> "open", char_id |-> char_id]]
    /\ reqs' = OnRegistryChange(reqs, char_id, active_connections')
    /\ UNCHANGED <<table, received, impl, last_call>>

\* The client closes the connection: receive_text will raise WebSocketDisconnect
ClientClose(w) ==
    /\ chan[w].state = "open"
    /\ chan' = [chan EXCEPT ![w].state = "closed"]
    /\ UNCHANGED <<table, active_connections, reqs, received, impl, last_call>>

\* receive_text raises something other than WebSocketDisconnect: the except
\* clause does not match and the endpoint ends without manager.disconnect
ReceiveError(w) ==
    /\ chan[w].state = "open"
    /\ chan' = [chan EXCEPT ![w].state = "dead"]
    /\ UNCHANGED <<table, active_connections, reqs, received, impl, last_call>>

\* The client stops reading and the connection's buffers are full: from now
\* on a send_text to this websocket does not complete
Stall(w) ==
    /\ chan[w].state = "open"
    /\ chan' = [chan EXCEPT ![w].state = "stalled"]
    /\ UNCHANGED <<table, active_connections, reqs, received, impl, last_call>>

\* except WebSocketDisconnect: manager.disconnect(char_id, websocket)
WsDisconnect(w) ==
    /\ chan[w].state = "closed"
    /\ LET out == disconnect(active_connections, chan[w].char_id, w)
       IN  /\ active_connections' = out.conns
           /\ reqs' = OnRegistryChange(reqs, chan[w].char_id, out.conns)
    /\ chan' = [chan EXCEPT ![w].state = "gone"]
    /\ UNCHANGED <<table, received, impl, last_call>>

\* No direct disconnect call yet
NoCall == [fn |-> "none", absent |-> FALSE, raised |-> "none", changed |-> FALSE]

Init ==
    /\ table = InitTable
    /\ active_connections = <<>>
    /\ chan = [w \in Channels |-> [state |-> "new", char_id |-> "none"]]
    /\ reqs = [r \in Reqs |-> IdleReq]
    /\ received = [w \in Channels |-> <<>>]
    /\ impl = "main"
    /\ last_call = NoCall

\* The service as its clients drive it: requests of authorised callers,
\* websockets connecting and ending, suspended broadcasts running on
Next ==
    \/ \E r \in Reqs, c \in CharIds, a \in Amounts : adjust_hp(r, c, a, "valid")
    \/ \E r \in Reqs, c \in CharIds, a \in Amounts : adjust_gold(r, c, a, "valid")
    \/ \E r \in Reqs, c \in CharIds : level_up(r, c, "valid")
    \/ \E r \in Reqs, c \in CharIds, i \in ItemModels : add_item(r, c, i, "valid", "ok")
    \/ \E r \in Reqs, c \in CharIds, i \in ItemIndexes : use_item(r, c, i, "ok")
    \/ \E r \in Reqs : Resume(r)
    \/ \E w \in Channels, c \in CharIds : WsConnect(w, c)
    \/ \E w \in Channels : ClientClose(w)
    \/ \E w \in Channels : ReceiveError(w)
    \/ \E w \in Channels : WsDisconnect(w)

Spec == Init /\ [][Next]_vars

\* The event loop runs every coroutine that is ready: a suspended broadcast
\* whose send has returned, and an endpoint whose receive_text has raised
\* WebSocketDisconnect.  Clients are under no obligation.
Fairness ==
    /\ \A r \in Reqs : WF_vars(Resume(r))
    /\ \A w \in Channels : WF_vars(WsDisconnect(w))

FairSpec == Spec /\ Fairness

----------------------------------------------------------------------------
(* The privileged endpoints called once with any credential *)

NextAuth ==
    \/ \E c \in CharIds, a \in Amounts, k \in Credentials : adjust_hp(1, c, a, k)
    \/ \E c \in CharIds, a \in Amounts, k \in Credentials : adjust_gold(1, c, a, k)
    \/ \E c \in CharIds, k \in Credentials : level_up(1, c, k)
    \/ \E c \in CharIds, i \in ItemModels, k \in Credentials : add_item(1, c, i, k, "ok")
    \/ \E w \in Channels, c \in CharIds : WsConnect(w, c)
    \/ Resume(1)

SpecAuth == Init /\ [][NextAuth]_vars

----------------------------------------------------------------------------
(* The endpoints that read the table through get_character_from_db, with   *)
(* reads that succeed, fail with an error response, or get no response     *)

SomeDice == {1, 10, 20}

NextStore ==
    \/ \E r \in 1..2, c \in CharIds, s \in ReadOutcomes : get_character(r, c, s)
    \/ \E r \in 1..2, c \in CharIds, n \in SkillNames, d \in SomeDice, s \in ReadOutcomes :
          roll_skill(r, c, n, d, s)
    \/ \E r \in 1..2, c \in CharIds, i \in ItemModels, s \in ReadOutcomes :
          add_item(r, c, i, "valid", s)
    \/ \E r \in 1..2, c \in CharIds, i \in ItemIndexes, s \in ReadOutcomes :
          use_item(r, c, i, s)
    \/ \E w \in Channels, c \in CharIds : WsConnect(w, c)
    \/ \E r \in Reqs : Resume(r)

SpecStore == Init /\ [][NextStore]_vars

----------------------------------------------------------------------------
(* Inventory requests on a table whose item holds an empty inventory or    *)
(* one of several stacks (DynamoDB has no schema: an entry may lack count, *)
(* which use_item reads as 1)                                              *)

InvItems ==
    {[name |-> "Potion", type |-> "Consumable", count |-> 2, stats |-> "None"],
     [name |-> "Potion", type |-> "Quest", count |-> 1, stats |-> "None"],
     [name |-> "Sword", type |-> "Weapon", count |-> 1, stats |-> "None"]}
InvIndexes == {-1, 0, 1, 3}
SeedInventories ==
    {<<>>,
     <<[name |-> "Rope", type |-> "Gear"],
       [name |-> "Potion", type |-> "Consumable", count |-> 3],
       [name |-> "Sword", type |-> "Weapon", count |-> 1]>>}

InitInv ==
    /\ table \in {[c \in {"carl_001"} |-> Put(clean_carl, "inventory", inv)] :
                     inv \in SeedInventories}
    /\ active_connections = <<>>
    /\ chan = [w \in Channels |-> [state |-> "new", char_id |-> "none"]]
    /\ reqs = [r \in Reqs |-> IdleReq]
    /\ received = [w \in Channels |-> <<>>]
    /\ impl = "main"
    /\ last_call = NoCall

NextInv ==
    \/ \E r \in Reqs, c \in CharIds, i \in InvItems : add_item(r, c, i, "valid", "ok")
    \/ \E r \in Reqs, c \in CharIds, i \in InvIndexes : use_item(r, c, i, "ok")
    \/ \E w \in Channels, c \in CharIds : WsConnect(w, c)
    \/ \E r \in Reqs : Resume(r)

SpecInv == InitInv /\ [][NextInv]_vars

\* The same requests on the table as reseed_carl.py leaves it
SpecInvSeeded == Init /\ [][NextInv]_vars

----------------------------------------------------------------------------
(* Adjust-HP requests with amounts that take hp.current below 0 and above  *)
(* hp.max, delivered to websockets of which some break                     *)

HpAmounts == {-50, -5, 5}

NextHp ==
    \/ \E r \in Reqs, c \in CharIds, a \in HpAmounts : adjust_hp(r, c, a, "valid")
    \/ \E w \in Channels, c \in CharIds : WsConnect(w, c)
    \/ \E w \in Channels : ReceiveError(w)
    \/ \E r \in Reqs : Resume(r)

SpecHp == Init /\ [][NextHp]_vars

----------------------------------------------------------------------------
(* Adjust-HP requests broadcasting to websockets of which some stop        *)
(* reading.  The event loop runs every broadcast whose send has returned.  *)

NextSlow ==
    \/ \E r \in 1..2, c \in CharIds, a \in Amounts : adjust_hp(r, c, a, "valid")
    \/ \E w \in Channels, c \in CharIds : WsConnect(w, c)
    \/ \E w \in Channels : Stall(w)
    \/ \E r \in Reqs : Resume(r)

SpecSlow == Init /\ [][NextSlow]_vars /\ \A r \in Reqs : WF_vars(Resume(r))

----------------------------------------------------------------------------
(* Adjust-HP and adjust-gold requests overlapping, observed by websockets  *)
(* that subscribed before the first request; clients may close.  The sends *)
(* on one websocket complete in the order they were called, so a suspended *)
(* broadcast runs on only when no earlier request is still suspended in a  *)
(* send to the same websocket.                                             *)

NoRequestYet == \A q \in Reqs : reqs[q].pc = "idle"

FifoResume(r) ==
    /\ \A q \in Reqs :
          (q < r /\ reqs[q].pc = "sent") => reqs[q].connection # reqs[r].connection
    /\ Resume(r)

NextOrder ==
    \/ \E r \in Reqs, c \in CharIds, a \in Amounts : adjust_hp(r, c, a, "valid")
    \/ \E r \in Reqs, c \in CharIds, a \in Amounts : adjust_gold(r, c, a, "valid")
    \/ \E w \in Channels, c \in CharIds : NoRequestYet /\ WsConnect(w, c)
    \/ \E w \in Channels : ClientClose(w)
    \/ \E w \in Channels : WsDisconnect(w)
    \/ \E r \in Reqs : FifoResume(r)

SpecOrder == Init /\ [][NextOrder]_vars

----------------------------------------------------------------------------
(* One skill roll, with any die value, among adjust-HP requests *)

NoRollYet == \A q \in Reqs : reqs[q].op # "roll_skill"

NextRoll ==
    \/ \E r \in Reqs, c \in CharIds, n \in SkillNames, d \in D20 :
          NoRollYet /\ roll_skill(r, c, n, d, "ok")
    \/ \E r \in Reqs, c \in CharIds, a \in Amounts : adjust_hp(r, c, a, "valid")
    \/ \E w \in Channels, c \in CharIds : WsConnect(w, c)
    \/ \E r \in Reqs : Resume(r)

SpecRoll == Init /\ [][NextRoll]_vars

\* Two skill rolls one after the other, with any die value and skill name
NoneSuspended == \A q \in Reqs : reqs[q].pc # "sent"

NextDice ==
    \/ \E r \in 1..2, c \in CharIds, n \in SkillNames, d \in D20 :
          NoneSuspended /\ roll_skill(r, c, n, d, "ok")
    \/ \E w \in Channels, c \in CharIds : WsConnect(w, c)
    \/ \E r \in Reqs : Resume(r)

SpecDice == Init /\ [][NextDice]_vars

----------------------------------------------------------------------------
(* The two ConnectionManager classes called directly: connect on a new     *)
(* websocket, disconnect with any arguments at any time, broadcast, on     *)
(* websockets that are open or have been closed by their client.           *)

ManagerConnect(conns, char_id, websocket) ==
    IF impl = "main"
    THEN connect(conns, char_id, websocket)
    ELSE cm_connect(conns, websocket, char_id)

ManagerDisconnect(conns, char_id, websocket) ==
    IF impl = "main"
    THEN disconnect(conns, char_id, websocket)
    ELSE cm_disconnect(conns, websocket, char_id)

\* websocket.accept() succeeds once per websocket, so a websocket is handed
\* to connect at most once
CallConnect(w, char_id) ==
    /\ NextChannel(w)
    /\ active_connections' = ManagerConnect(active_connections, char_id, w)
    /\ chan' = [chan EXCEPT ![w] = [state |-> "open", char_id |-> char_id]]
    /\ reqs' = OnRegistryChange(reqs, char_id, active_connections')
    /\ last_call' = NoCall
    /\ UNCHANGED <<table, received, impl>>

CallDisconnect(w, char_id) ==
    LET out == ManagerDisconnect(active_connections, char_id, w)
    IN  /\ active_connections' = out.conns
        /\ reqs' = OnRegistryChange(reqs, char_id, out.conns)
        /\ last_call' = [fn |-> "disconnect",
                         absent |-> ~In(Subscribers(active_connections, char_id), w),
                         raised |-> out.raised,
                         changed |-> out.conns # active_connections]
        /\ UNCHANGED <<table, chan, received, impl>>

CallBroadcast(r, char_id) ==
    /\ NextReq(r)
    /\ Continue(r, Broadcast(r, Called("broadcast", char_id, "none"), received, 1,
                             active_connections))
    /\ UNCHANGED <<table, active_connections, chan, impl, last_call>>

InitCM ==
    /\ table = InitTable
    /\ active_connections = <<>>
    /\ chan = [w \in Channels |-> [state |-> "new", char_id |-> "none"]]
    /\ reqs = [r \in Reqs |-> IdleReq]
    /\ received = [w \in Channels |-> <<>>]
    /\ impl \in {"main", "connection_manager"}
    /\ last_call = NoCall

NextCM ==
    \/ \E w \in Channels, c \in CharIds : CallConnect(w, c)
    \/ \E w \in Channels, c \in CharIds : CallDisconnect(w, c)
    \/ \E r \in Reqs, c \in CharIds : CallBroadcast(r, c)
    \/ \E r \in Reqs : Resume(r)
    \/ \E w \in Channels : ClientClose(w)

SpecCM == InitCM /\ [][NextCM]_vars

----------------------------------------------------------------------------
(* Properties *)

\* The operations that change a stored item, and those among them that the
\* service reserves to callers with a credential
MutationOps == {"adjust_hp", "adjust_gold", "level_up", "add_item", "use_item"}
PrivilegedOps == {"add_item", "level_up", "adjust_gold", "adjust_hp"}

\* The types of the messages of request r in a websocket's received list, in order
TypesFrom(msgs, r) ==
    LET mine == SelectSeq(msgs, LAMBDA m : m.req = r)
    IN  [i \in 1..Len(mine) |-> mine[i].type]

\* The list of char_id in the registry
Registry(char_id) == Get(active_connections, char_id, <<>>)

\* Request r ends in this step
Ends(r) == reqs[r].pc # "done" /\ reqs'[r].pc = "done"

\* Request r is called in this step
Starts(r) == reqs[r].pc = "idle" /\ reqs'[r].pc # "idle"

\* The subscribers of r's character when r was called, and whether that
\* list stayed the same until now, for an r that is not done
ObserversAtCall(r) ==
    IF reqs[r].pc = "idle" THEN Registry(reqs'[r].char_id) ELSE reqs[r].observers
StableSinceCall(r) == reqs[r].pc = "idle" \/ reqs[r].stable

\* C1: when an adjust-HP request on character X succeeds while X's
\* subscriber list stays as it was, every websocket subscribed to X has
\* received from that request exactly one update and then exactly one log,
\* and every other websocket (one subscribed to another character Y) has
\* received nothing from it.
C1_FanOutToObservers ==
    [][\A r \in Reqs :
          (Ends(r) /\ reqs'[r].op = "adjust_hp" /\ reqs'[r].status = 200 /\ StableSinceCall(r))
          => \A w \in Channels :
                /\ In(ObserversAtCall(r), w)
                   => TypesFrom(received'[w], r) = <<"update", "log">>
                /\ (~In(ObserversAtCall(r), w) \/ chan[w].char_id # reqs'[r].char_id)
                   => TypesFrom(received'[w], r) = <<>>]_vars

\* Two websockets on carl_001 have each received update then log of a
\* successful adjust-HP on carl_001; an open websocket on donut_001 has
\* received nothing
C1_Witness ==
    \E r \in Reqs, w1, w2, w3 \in Channels :
        /\ w1 # w2
        /\ reqs[r].pc = "done" /\ reqs[r].op = "adjust_hp" /\ reqs[r].status = 200
        /\ reqs[r].char_id = "carl_001"
        /\ chan[w1].char_id = "carl_001" /\ chan[w2].char_id = "carl_001"
        /\ TypesFrom(received[w1], r) = <<"update", "log">>
        /\ TypesFrom(received[w2], r) = <<"update", "log">>
        /\ chan[w3].char_id = "donut_001" /\ chan[w3].state = "open"
        /\ received[w3] = <<>>


\* C2: when a send of a mutation request of main.py fails, the request
\* still returns success, and every websocket that was subscribed when the
\* request was called and is still open has received every event the
\* request broadcast (the subscriber list having stayed as it was).
C2_DeliveryFailureAbsorbed ==
    [][\A r \in Reqs :
          (Ends(r) /\ reqs'[r].op \in MutationOps /\ reqs'[r].send_failed)
          => /\ reqs'[r].status = 200
             /\ StableSinceCall(r)
                => \A w \in Channels :
                      (In(ObserversAtCall(r), w) /\ chan[w].state = "open")
                      => TypesFrom(received'[w], r) = reqs'[r].emitted]_vars

RECURSIVE SumGold(_, _)
\* The sum of the amounts of the adjust-gold requests 1..n on char_id
SumGold(char_id, n) ==
    IF n = 0 THEN 0
    ELSE SumGold(char_id, n - 1)
         + (IF reqs[n].op = "adjust_gold" /\ reqs[n].char_id = char_id
            THEN reqs[n].amount ELSE 0)

\* The gold attribute of the stored item, 0 when it is missing
StoredGold(tbl, char_id) ==
    IF char_id \in DOMAIN tbl /\ "gold" \in DOMAIN tbl[char_id] THEN tbl[char_id]["gold"] ELSE 0

\* C3: once every adjust-gold request on a character has completed, with
\* success or with a failed delivery, the stored gold is the initial gold (0
\* when the attribute was missing) plus the sum of all their amounts, however
\* the requests interleaved and whoever was subscribed.
C3_GoldIsSumOfAdjustments ==
    \A c \in CharIds :
        (\A r \in Reqs : (reqs[r].op = "adjust_gold" /\ reqs[r].char_id = c) => reqs[r].pc = "done")
        => StoredGold(table, c) = StoredGold(InitTable, c) + SumGold(c, MaxReqs)

\* Three adjust-gold requests on carl_001 (whose gold attribute was missing)
\* have completed, amounts of both signs, two of them overlapping (a websocket
\* received the update of the later before the log of the earlier), one ended
\* by a failed send; the stored gold is their sum.
C3_Witness ==
    /\ \A r \in 1..3 : reqs[r].op = "adjust_gold" /\ reqs[r].char_id = "carl_001" /\ reqs[r].pc = "done"
    /\ \E r, q \in 1..3 : reqs[r].amount = -3 /\ reqs[q].amount = 10
    /\ \E r \in 1..3 : reqs[r].send_failed /\ reqs[r].status = 500
    /\ \E w \in Channels, i, j \in 1..4 :
          /\ i < j /\ j <= Len(received[w])
          /\ received[w][i].type = "update" /\ received[w][j].type = "log"
          /\ received[w][i].req > received[w][j].req
    /\ table["carl_001"]["gold"] = reqs[1].amount + reqs[2].amount + reqs[3].amount

\* C4: every mutation request that returns success has called broadcast
\* exactly twice: with one update event, then with one log event.
C4_UpdateThenLog ==
    \A r \in Reqs :
        (reqs[r].pc = "done" /\ reqs[r].status = 200 /\ reqs[r].op \in MutationOps)
        => reqs[r].emitted = <<"update", "log">>

\* C5: the step in which websocket_endpoint handles the close of a websocket
\* of character X leaves X's list exactly one shorter and without that
\* websocket, and no broadcast call sends to a websocket that had been
\* unsubscribed before the call began.
C5_DisconnectCleanup ==
    [][/\ \A w \in Channels :
             (chan[w].state = "closed" /\ chan'[w].state = "gone")
             => /\ Len(Get(active_connections', chan[w].char_id, <<>>))
                      = Len(Registry(chan[w].char_id)) - 1
                /\ ~In(Get(active_connections', chan[w].char_id, <<>>), w)
       /\ \A r \in Reqs : ~reqs'[r].sent_to_gone]_vars

\* A broadcast that began after a websocket of its character had been
\* unsubscribed is suspended in a send to another websocket of that character
C5_Witness ==
    \E r \in Reqs, w \in Channels :
        /\ reqs[r].pc = "sent"
        /\ w \in reqs[r].gone_at_start
        /\ chan[w].char_id = reqs[r].char_id
        /\ reqs[r].connection # w
        /\ Len(received[reqs[r].connection]) > 0

\* C6: no character is mapped to an empty list, and the keys of the registry
\* are exactly the characters that have a websocket in their list.
C6_RegistryPruned ==
    /\ \A c \in DOMAIN active_connections : Len(active_connections[c]) > 0
    /\ DOMAIN active_connections
          = {c \in CharIds : \E w \in Channels : In(Registry(c), w)}

\* connection_manager.py's disconnect has just emptied and deleted the list
\* of one character while another character keeps its list
C6_Witness ==
    /\ impl = "connection_manager"
    /\ last_call.fn = "disconnect" /\ last_call.changed
    /\ \E w \in Channels :
          /\ chan[w].state # "new"
          /\ chan[w].char_id \notin DOMAIN active_connections
    /\ DOMAIN active_connections # {}


\* The connection of websocket w has ended: closed by the client, or broken
Ended(w) == chan[w].state \in {"closed", "dead", "gone"}

\* C7: a websocket whose connection has ended, on whatever path, is
\* eventually no longer in the registry.
C7_EndedChannelUnsubscribed ==
    \A w \in Channels : Ended(w) ~> ~In(Registry(chan[w].char_id), w)

\* C8: a disconnect call whose websocket is not in the list of its character
\* (the character having no list, or a list of other websockets) raises
\* nothing and leaves the registry as it was.
C8_AbsentDisconnectIsNoOp ==
    (last_call.fn = "disconnect" /\ last_call.absent)
    => (last_call.raised = "none" /\ ~last_call.changed)

\* C9: a privileged request called without a valid credential is rejected:
\* it ends at once with an error, the table is as before, and it has
\* broadcast nothing.
C9_UnauthorizedRejected ==
    [][\A r \in Reqs :
          (Starts(r) /\ reqs'[r].op \in PrivilegedOps /\ reqs'[r].cred # "valid")
          => /\ reqs'[r].pc = "done" /\ reqs'[r].status # 200
             /\ table' = table
             /\ reqs'[r].emitted = <<>> /\ received' = received]_vars

\* C10: a mutation request on a character that has no stored item fails: it
\* ends at once with an error, the table is as before (no item created), and
\* it has broadcast nothing.
C10_NotFoundRejected ==
    [][\A r \in Reqs :
          (Starts(r) /\ reqs'[r].op \in MutationOps /\ reqs'[r].char_id \notin DOMAIN table)
          => /\ reqs'[r].pc = "done" /\ reqs'[r].status # 200
             /\ table' = table
             /\ reqs'[r].emitted = <<>> /\ received' = received]_vars

\* The endpoints that read the stored item through get_character_from_db
\* before they do anything else
ReadOps == {"get_character", "roll_skill", "add_item", "use_item"}

\* C11: when the read of the table fails in get character, roll skill, add
\* item or use item, whether with an error response or with no response, the
\* request ends at once with a service failure (a 5xx status), never with
\* the 404 an unknown character gets, and it writes and broadcasts nothing.
C11_StorageFailureDistinct ==
    [][\A r \in Reqs :
          (Starts(r) /\ reqs'[r].op \in ReadOps /\ reqs'[r].store # "ok")
          => /\ reqs'[r].pc = "done"
             /\ reqs'[r].status >= 500
             /\ table' = table /\ received' = received]_vars

\* Request r takes a step: it is called, or its coroutine runs on
Steps(r) == reqs'[r] # reqs[r] /\ (reqs[r].pc = "idle" \/ reqs[r].pc = "sent")

\* C12: no step of a roll-skill request changes the table; a roll-skill
\* request that succeeds has broadcast exactly one log event and then exactly
\* one roll_result event and no update event, and (the subscriber list
\* having stayed as it was) every subscriber has received just these two.
C12_RollReadOnlyLogThenResult ==
    [][\A r \in Reqs :
          /\ (Steps(r) /\ reqs'[r].op = "roll_skill") => table' = table
          /\ (Ends(r) /\ reqs'[r].op = "roll_skill" /\ reqs'[r].status = 200)
             => /\ reqs'[r].emitted = <<"log", "roll_result">>
                /\ StableSinceCall(r)
                   => \A w \in Channels :
                         In(ObserversAtCall(r), w)
                         => TypesFrom(received'[w], r) = <<"log", "roll_result">>]_vars

\* A roll on carl_001 has succeeded after an adjust-HP had changed the stored
\* item; a websocket has received its log and then its roll_result
C12_Witness ==
    \E r \in Reqs, w \in Channels :
        /\ reqs[r].op = "roll_skill" /\ reqs[r].pc = "done" /\ reqs[r].status = 200
        /\ table # InitTable
        /\ TypesFrom(received[w], r) = <<"log", "roll_result">>

\* The skill value stored for the lower-cased name, 0 when there is none
StoredSkill(char_id, skill_name) ==
    IF Lower(skill_name) \in DOMAIN table[char_id]["skills"]
    THEN table[char_id]["skills"][Lower(skill_name)]
    ELSE 0

\* C13: every roll_result delivered carries the skill name and die of its
\* request, modifier = the stored skill value for the lower-cased skill name
\* (0 for an unknown skill), total = die + modifier, and crit exactly when
\* the die is 1 or 20; with modifier 0 the total is the die, in 1..20; and
\* a roll on a stored character never ends in an error because the skill is
\* unknown.
C13_RollValues ==
    /\ \A w \in Channels : \A i \in 1..Len(received[w]) :
          received[w][i].type = "roll_result"
          => LET b == received[w][i].body
                 q == reqs[received[w][i].req]
             IN  /\ b.skill = q.skill_name
                 /\ b.d20 = q.d20 /\ b.d20 \in 1..20
                 /\ b.mod = StoredSkill(q.char_id, q.skill_name)
                 /\ b.total = b.d20 + b.mod
                 /\ b.crit <=> (b.d20 = 1 \/ b.d20 = 20)
                 /\ b.mod = 0 => (b.total = b.d20 /\ b.total \in 1..20)
    /\ \A r \in Reqs :
          (reqs[r].op = "roll_skill" /\ reqs[r].pc = "done"
              /\ reqs[r].char_id \in DOMAIN table /\ ~reqs[r].send_failed)
          => reqs[r].status = 200

\* A websocket has received the result of a roll of "Brawling" with die 20
\* (modifier 5, total 25, critical) and another roll, of the unknown skill
\* "STEALTH", has returned success
C13_Witness ==
    /\ \E w \in Channels : \E i \in 1..Len(received[w]) :
          /\ received[w][i].type = "roll_result"
          /\ received[w][i].body = [skill |-> "Brawling", d20 |-> 20, mod |-> 5,
                                    total |-> 25, crit |-> TRUE]
    /\ \E r \in Reqs :
          /\ reqs[r].op = "roll_skill" /\ reqs[r].skill_name = "STEALTH"
          /\ reqs[r].pc = "done" /\ reqs[r].status = 200 /\ reqs[r].modifier = 0

\* The stored inventory of a character
Inventory(tbl, char_id) == tbl[char_id]["inventory"]

\* The count of a stack entry, 1 when the entry has none
CountOf(entry) == IF "count" \in DOMAIN entry THEN entry["count"] ELSE 1

\* C14: a successful add-item of (name, type, count): when some stack has
\* that name and that type, the first such stack has its count raised by
\* count, every other entry is as it was and the length is unchanged;
\* otherwise the item is appended as one new entry.  The inventory never
\* holds two entries of the same name and type, so Potion/Consumable x2
\* added twice to an empty inventory is one stack of 4.
C14_InventoryStacking ==
    [][/\ \A r \in Reqs :
             (Starts(r) /\ reqs'[r].op = "add_item" /\ reqs'[r].status = 200)
             => LET c == reqs'[r].char_id
                    item == reqs'[r].item
                    old == Inventory(table, c)
                    new == Inventory(table', c)
                    same == {i \in 1..Len(old) :
                                /\ old[i]["name"] = item.name
                                /\ "type" \in DOMAIN old[i] /\ old[i]["type"] = item.type}
                IN  IF same # {}
                    THEN \E f \in same :
                            /\ \A i \in same : f <= i
                            /\ Len(new) = Len(old)
                            /\ new[f]["count"] = CountOf(old[f]) + item.count
                            /\ new[f]["name"] = item.name /\ new[f]["type"] = item.type
                            /\ \A j \in 1..Len(old) : j # f => new[j] = old[j]
                    ELSE /\ Len(new) = Len(old) + 1
                         /\ new[Len(new)] = item
                         /\ \A j \in 1..Len(old) : new[j] = old[j]
       /\ \A c \in DOMAIN table' :
             LET new == Inventory(table', c)
             IN  \A i, j \in 1..Len(new) :
                    (i # j /\ new[i]["name"] = new[j]["name"]) => new[i]["type"] # new[j]["type"]]_vars

\* Potion/Consumable x2 has been added twice to carl_001, and then a
\* Potion/Quest: the inventory is one Consumable stack of 4 and the Quest
\* entry
C14_Witness ==
    /\ \A r \in 1..3 : reqs[r].op = "add_item" /\ reqs[r].status = 200
                        /\ reqs[r].char_id = "carl_001"
    /\ reqs[1].item.type = "Consumable" /\ reqs[2].item.type = "Consumable"
    /\ Inventory(table, "carl_001")
          = <<[name |-> "Potion", type |-> "Consumable", count |-> 4, stats |-> "None"],
              [name |-> "Potion", type |-> "Quest", count |-> 1, stats |-> "None"]>>

\* C15: a use-item on a stored character: with a valid index on a stack of
\* count above 1 the count goes down by 1, the other entries and the length
\* stay; on a stack of count 1 or without count the entry is removed, the
\* length goes down by 1 and the other entries keep their order; with an
\* index outside 0..len-1 the request fails at once, the table is as before
\* and nothing is broadcast.
C15_InventoryConsumption ==
    [][\A r \in Reqs :
          (Starts(r) /\ reqs'[r].op = "use_item" /\ reqs'[r].char_id \in DOMAIN table)
          => LET c == reqs'[r].char_id
                 k == reqs'[r].item_index + 1
                 old == Inventory(table, c)
                 new == Inventory(table', c)
             IN  IF k \in 1..Len(old)
                 THEN IF CountOf(old[k]) > 1
                      THEN /\ Len(new) = Len(old)
                           /\ new[k]["count"] = old[k]["count"] - 1
                           /\ new[k]["name"] = old[k]["name"]
                           /\ \A j \in 1..Len(old) : j # k => new[j] = old[j]
                      ELSE /\ Len(new) = Len(old) - 1
                           /\ \A j \in 1..Len(new) : new[j] = IF j < k THEN old[j] ELSE old[j + 1]
                 ELSE /\ reqs'[r].pc = "done" /\ reqs'[r].status \notin {0, 200}
                      /\ table' = table
                      /\ reqs'[r].emitted = <<>> /\ received' = received]_vars

\* From Rope (no count), Potion x3, Sword x1: index 0 was used twice (Rope
\* removed, then Potion down to 2) and index 3 was refused; a websocket has
\* received the events of the first two
C15_Witness ==
    /\ \A r \in 1..3 : reqs[r].op = "use_item" /\ reqs[r].pc = "done"
                        /\ reqs[r].char_id = "carl_001"
    /\ reqs[1].item_index = 0 /\ reqs[1].status = 200
    /\ reqs[2].item_index = 0 /\ reqs[2].status = 200
    /\ reqs[3].item_index = 3 /\ reqs[3].status = 400
    /\ Inventory(table, "carl_001")
          = <<[name |-> "Potion", type |-> "Consumable", count |-> 2],
              [name |-> "Sword", type |-> "Weapon", count |-> 1]>>
    /\ \E w \in Channels : Len(received[w]) = 4

RECURSIVE SumHp(_, _)
\* The sum of the amounts of the adjust-HP requests among 1..n called on char_id
SumHp(char_id, n) ==
    IF n = 0 THEN 0
    ELSE SumHp(char_id, n - 1)
         + (IF reqs[n].op = "adjust_hp" /\ reqs[n].char_id = char_id
            THEN reqs[n].amount ELSE 0)

\* C16: for a stored item with hp.current, after any sequence of adjust-HP
\* requests the stored hp.current is the initial value plus the sum of their
\* amounts, below 0 or above hp.max as the sum may be, and hp.max is as it
\* was; so -5 then +5 gives back the original value.
C16_HpIsSumOfAdjustments ==
    \A c \in DOMAIN table :
        /\ table[c]["hp"]["current"] = InitTable[c]["hp"]["current"] + SumHp(c, MaxReqs)
        /\ table[c]["hp"]["max"] = InitTable[c]["hp"]["max"]

\* carl_001 (40 of 40) was adjusted by +5, -50 and -5: a websocket has seen
\* hp.current at 45, above the maximum, and at -5, and the stored value is -10
C16_Witness ==
    /\ \A r \in 1..3 : reqs[r].op = "adjust_hp" /\ reqs[r].char_id = "carl_001"
                        /\ reqs[r].pc = "done"
    /\ \E w \in Channels : \E i, j \in 1..Len(received[w]) :
          /\ i < j
          /\ received[w][i].type = "update" /\ received[w][i].body.hp.current = 45
          /\ received[w][j].type = "update" /\ received[w][j].body.hp.current = -5
    /\ table["carl_001"]["hp"]["current"] = -10

\* C17: the step in which a level-up request on a stored character is
\* called and does not fail leaves the stored level exactly one above what it
\* was and the stored hp.current equal to hp.max.
C17_LevelUpHealsToMax ==
    [][\A r \in Reqs :
          (Starts(r) /\ reqs'[r].op = "level_up" /\ reqs'[r].char_id \in DOMAIN table
              /\ reqs'[r].status \in {0, 200})
          => LET c == reqs'[r].char_id
             IN  /\ table'[c]["level"] = table[c]["level"] + 1
                 /\ table'[c]["hp"]["current"] = table'[c]["hp"]["max"]]_vars

\* The websocket was registered when request r was called and is registered
\* as r ends (a websocket subscribes once, so it was registered throughout)
StaysRegistered(r, w) ==
    In(ObserversAtCall(r), w) /\ In(Get(active_connections', reqs'[r].char_id, <<>>), w)

\* C18: when a request returns success, every websocket registered for its
\* character from the call to the return has received each of its events
\* exactly once, whatever other websockets of the character did meanwhile;
\* and a websocket that subscribed after the request's first broadcast had
\* started has not received the event of that broadcast.
C18_BroadcastOnSnapshot ==
    [][\A r \in Reqs :
          (Ends(r) /\ reqs'[r].status = 200 /\ reqs'[r].emitted # <<>>)
          => \A w \in Channels :
                /\ StaysRegistered(r, w)
                   => TypesFrom(received'[w], r) = reqs'[r].emitted
                /\ ~In(ObserversAtCall(r), w)
                   => \A i \in 1..Len(received'[w]) :
                         received'[w][i].req = r
                         => received'[w][i].type # reqs'[r].emitted[1]]_vars

\* C20: while a broadcast of request r is under way, a websocket that is
\* registered for r's character, whose client is reading, and that has not
\* yet received from r eventually receives r's event (or stops being a
\* healthy observer itself), whatever the other websockets of the character
\* do, also when the send to one of them never completes.
C20_SlowObserverStallsNobody ==
    \A r \in Reqs, w \in Channels :
        (/\ reqs[r].pc = "sent"
         /\ In(Registry(reqs[r].char_id), w)
         /\ chan[w].state = "open"
         /\ TypesFrom(received[w], r) = <<>>)
        ~> (TypesFrom(received[w], r) # <<>> \/ chan[w].state # "open")

\* The inventory requests, and whether one has written the stored inventory
InventoryOps == {"add_item", "use_item"}
Wrote(rec) ==
    \/ rec.op = "add_item" /\ rec.status = 200
    \/ /\ rec.op = "use_item" /\ rec.pc # "idle"
       /\ rec.status \notin {400, 404}
       /\ rec.status = 500 => rec.send_failed

RECURSIVE ExpectedInventory(_, _)
\* What the changes of the requests among 1..n that wrote the inventory of
\* char_id make of the initial inventory, applied one after the other in the
\* order the requests arrived
ExpectedInventory(char_id, n) ==
    IF n = 0 THEN Inventory(InitTable, char_id)
    ELSE LET inv == ExpectedInventory(char_id, n - 1)
             rec == reqs[n]
         IN  IF rec.char_id = char_id /\ Wrote(rec)
             THEN IF rec.op = "add_item"
                  THEN AddToInventory(inv, rec.item)
                  ELSE UseFromInventory(inv, rec.item_index)
             ELSE inv

LostUpdate(r) ==
    \E q \in Reqs :
        /\ \/ \E i \in InvItems : add_item(q, reqs[r].char_id, i, "valid", "ok")
           \/ \E k \in InvIndexes : use_item(q, reqs[r].char_id, k, "ok")
        /\ reqs'[q].status \in {0, 200}
        /\ LET new == Inventory(table', reqs[r].char_id)
               read == reqs[r].inventory_read
           IN  \/ new = Inventory(table, reqs[r].char_id)
               \/ /\ reqs'[q].op = "add_item"
                  /\ new = AddToInventory(read, reqs'[q].item)
               \/ /\ reqs'[q].op = "use_item"
                  /\ ValidIndex(read, reqs'[q].item_index)
                  /\ new = UseFromInventory(read, reqs'[q].item_index)

Updates(w) == SelectSeq(received[w], LAMBDA m : m.type = "update")

\* Every request called on char_id has returned success, and there is one
AllSucceeded(char_id) ==
    /\ \E r \in Reqs : reqs[r].char_id = char_id /\ reqs[r].pc = "done"
    /\ \A r \in Reqs :
          (reqs[r].pc # "idle" /\ reqs[r].char_id = char_id)
          => (reqs[r].pc = "done" /\ reqs[r].status = 200)

\* C21: a websocket receives the update events of the mutation requests on
\* its character in the order in which the requests wrote the table (the
\* order of their arrival), and once all these requests have returned
\* success, the last update a websocket subscribed throughout has received
\* carries the stored record as projected.
C21_UpdatesInCommitOrder ==
    /\ \A w \in Channels : \A i, j \in 1..Len(Updates(w)) :
          i < j => Updates(w)[i].req < Updates(w)[j].req
    /\ \A c \in CharIds : \A w \in Channels :
          (AllSucceeded(c) /\ chan[w].state = "open" /\ In(Registry(c), w))
          => /\ Len(Updates(w)) > 0
             /\ Updates(w)[Len(Updates(w))].body = get_character_from_db(table, c)

=============================================================================
